---- MODULE Spec2Model ----
(***************************************************************************)
(* Model of the SmartLock Wi-Fi provisioning utility (wifi_setup.py):      *)
(* startup (probe, interface discovery, hotspot), the credential portal,   *)
(* the credential persistor working on the text of wpa_supplicant.conf,    *)
(* the connection establisher and the shutdown worker thread.              *)
(*                                                                         *)
(* Text is modelled as a sequence of one-character strings, so that        *)
(* strip(), escape_wpa() and the substring presence check are computed as  *)
(* the code computes them.                                                 *)
(***************************************************************************)
EXTENDS Integers, Sequences, FiniteSets, TLC

\* ------------------------------------------------------------------ bounds
\* POST/GET requests the portal accepts in one run of the model.
MaxRequests == 2

\* ---------------------------------------------------------- program constants
\* time.sleep(2) before the hotspot teardown, time.sleep(1) before os._exit.
FlushDelay == 2
ExitDelay == 1

\* ------------------------------------------------------------- characters
NL == "\n"
QUOTE == "\""
BSL == "\\"
SP == " "
Whitespace == {SP, NL, "\t"}

\* --------------------------------------------------------- text operators
RECURSIVE LStrip(_)
LStrip(s) ==
  IF s # <<>> /\ Head(s) \in Whitespace THEN LStrip(Tail(s)) ELSE s

RECURSIVE RStrip(_)
RStrip(s) ==
  IF s # <<>> /\ s[Len(s)] \in Whitespace
  THEN RStrip(SubSeq(s, 1, Len(s) - 1))
  ELSE s

\* str.strip()
Strip(s) == RStrip(LStrip(s))

\* str.replace(c, r) for a one-character pattern c
RECURSIVE Replace(_, _, _)
Replace(s, c, r) ==
  IF s = <<>> THEN <<>>
  ELSE (IF Head(s) = c THEN r ELSE <<Head(s)>>) \o Replace(Tail(s), c, r)

\* needle in hay
Contains(hay, needle) ==
  \E i \in 1..(Len(hay) - Len(needle) + 1) :
    SubSeq(hay, i, i + Len(needle) - 1) = needle

\* number of positions at which needle occurs in hay
Occurrences(hay, needle) ==
  Cardinality({i \in 1..(Len(hay) - Len(needle) + 1) :
                 SubSeq(hay, i, i + Len(needle) - 1) = needle})

\* The two replacements in the other order: the backslash that escapes a quote
\* is doubled afterwards.
escape_wpa_QuoteFirst(value) ==
  Replace(Replace(value, QUOTE, <<BSL, QUOTE>>), BSL, <<BSL, BSL>>)

\* value.replace("\\", "\\\\").replace('"', '\\"')
escape_wpa(value) ==
  Replace(Replace(value, BSL, <<BSL, BSL>>), QUOTE, <<BSL, QUOTE>>)

SsidKey == <<"s", "s", "i", "d", "=">>
PskKey == <<"p", "s", "k", "=">>
Indent == <<SP, SP, SP, SP>>
BlockOpen == <<NL, "n", "e", "t", "w", "o", "r", "k", "=", "{", NL>>
BlockClose ==
  Indent \o <<"k", "e", "y", "_", "m", "g", "m", "t", "=",
              "W", "P", "A", "-", "P", "S", "K", NL, "}", NL>>

\* f'ssid="{escape_wpa(ssid)}"'
SsidEntry(ssid) == SsidKey \o <<QUOTE>> \o escape_wpa(ssid) \o <<QUOTE>>

\* f'psk="{escape_wpa(password)}"'
PskEntry(password) == PskKey \o <<QUOTE>> \o escape_wpa(password) \o <<QUOTE>>

\* network_block of write_wifi_credentials
NetworkBlock(ssid, password) ==
  BlockOpen \o Indent \o SsidEntry(ssid) \o <<NL>>
            \o Indent \o PskEntry(password) \o <<NL>> \o BlockClose


\* ------------------------------------------------------------------ inputs
\* Form bodies: a sequence of <<field, raw value>> pairs.
ValidSsids == {<<"a">>, <<"b", QUOTE>>}
ValidPasswords == {<<"p">>, <<"q", BSL>>}
Forms ==
  {<< <<"ssid", <<"a">> >>, <<"password", p>> >> : p \in ValidPasswords}
  \cup { << <<"ssid", <<"b", QUOTE>> >>, <<"password", <<"p">> >> >>,
         << <<"ssid", <<SP, "a", NL>> >>, <<"password", <<"p", SP>> >> >>,
         << <<"ssid", <<SP>> >>, <<"password", <<"p">> >> >>,
         << <<"ssid", <<"a">> >>, <<"password", <<>> >> >>,
         << <<"ssid", <<"a">> >> >>,
         <<>> }

\* Content of the configuration file when the process starts.
Header == <<"c", "o", "u", "n", "t", "r", "y", "=", "U", "S", NL>>
InitialFiles ==
  { [exists |-> FALSE, text |-> <<>>],
    [exists |-> TRUE, text |-> Header \o NetworkBlock(<<"a">>, <<"p">>)] }

\* Output of "nmcli -t -f DEVICE,TYPE device status": lines split at ":".
DeviceListings ==
  { <<>>,
    << <<"lo", "loopback">>, <<"eth0", "ethernet">> >>,
    << <<"", "wifi">>, <<"lo">> >>,
    << <<"lo", "loopback">>, <<"wlan0", "wifi">> >>,
    << <<"wlan0", "wifi">>, <<"wlan1", "wifi">> >> }

\* Output of "nmcli -t -f NAME,DEVICE connection show --active".
ActiveListings ==
  { <<>>,
    << <<"Wired", "eth0">>, <<"Hotspot-1", "wlan0">> >> }

ExitStatus == {0, 1}
Threads == {1, 2}

\* ------------------------------------------------------------------- state
VARIABLES
  mainpc,                   \* position of main()
  exited, exitCode,         \* process termination and its status
  WIFI_INTERFACE,           \* module global
  HOTSPOT_CONNECTION_NAME,  \* module global
  listening,                \* the HTTP listener is bound (app.run)
  fileExists, file,         \* WPA_SUPPLICANT_FILE
  req,                      \* per request thread: the request being handled
  nreq,                     \* requests accepted so far
  cmds,                     \* nmcli commands issued, in order
  workers,                  \* shutdown threads spawned, in order
  handed,                   \* requests whose response was returned to the server
  internet,                 \* what is_internet_connected() answered at startup
  esc,                      \* one application of escape_wpa: input and result
  boot                      \* the bootstrap launcher (bootstrap.py), a process
                            \* of its own

vars == <<mainpc, exited, exitCode, WIFI_INTERFACE, HOTSPOT_CONNECTION_NAME,
          listening, fileExists, file, req, nreq, cmds, workers, handed,
          internet, esc, boot>>

\* State the provisioning process does not touch.
auxVars == <<esc, boot>>

procVars == <<mainpc, exited, exitCode, WIFI_INTERFACE, HOTSPOT_CONNECTION_NAME,
              listening>>
fileVars == <<fileExists, file>>

IdleRequest ==
  [pc |-> "idle", no |-> 0, method |-> "", form |-> <<>>,
   ssid |-> <<>>, password |-> <<>>, existing |-> <<>>,
   persisted |-> FALSE, appended |-> FALSE, rcDelete |-> 0, joined |-> FALSE,
   outcome |-> ""]

\* No escape_wpa application under way; the launcher not started.
EscIdle == [pc |-> "idle", value |-> <<>>, out |-> <<>>]
BootIdle == [pc |-> "idle"]

\* The provisioning process when it starts.
ProgramInit ==
  /\ mainpc = "probe"
  /\ exited = FALSE
  /\ exitCode = 0
  /\ WIFI_INTERFACE = ""
  /\ HOTSPOT_CONNECTION_NAME = ""
  /\ listening = FALSE
  /\ \E f \in InitialFiles : fileExists = f.exists /\ file = f.text
  /\ req = [t \in Threads |-> IdleRequest]
  /\ nreq = 0
  /\ cmds = <<>>
  /\ workers = <<>>
  /\ handed = {}
  /\ internet = "unknown"

Init == ProgramInit /\ esc = EscIdle /\ boot = BootIdle

\* ----------------------------------------------------------------- startup
\* What the caller sees of a command's exit status: run_command(check=False)
\* discards it, run_command(check=True) raises when it is not zero.
Result(rc, check) ==
  IF ~check THEN "ignored" ELSE IF rc = 0 THEN "ok" ELSE "error"

\* One nmcli invocation: issued by request `by` (0: by main or a worker).
Command(op, arg, by, rc, check) ==
  [op |-> op, arg |-> arg, by |-> by, result |-> Result(rc, check)]

Issue(c) == cmds' = Append(cmds, c)

\* An uncaught exception leaves main(): the interpreter exits with status 1.
Crash ==
  /\ mainpc' = "crashed"
  /\ exited' = TRUE
  /\ exitCode' = 1

\* sys.exit(main()) with main() returning code
Return(code) ==
  /\ mainpc' = "returned"
  /\ exited' = TRUE
  /\ exitCode' = code

\* detect_wifi_interface: the scan of result.stdout.splitlines()
RECURSIVE FirstWifiDevice(_)
FirstWifiDevice(lines) ==
  IF lines = <<>> THEN ""
  ELSE LET parts == Head(lines) IN
       IF Len(parts) >= 2 /\ parts[2] = "wifi" /\ parts[1] # ""
       THEN parts[1]
       ELSE FirstWifiDevice(Tail(lines))

\* get_active_connection_for_device: the scan of result.stdout.splitlines()
RECURSIVE ActiveConnectionFor(_, _)
ActiveConnectionFor(lines, device) ==
  IF lines = <<>> THEN ""
  ELSE LET parts == Head(lines) IN
       IF Len(parts) >= 2 /\ parts[2] = device
       THEN parts[1]
       ELSE ActiveConnectionFor(Tail(lines), device)

\* run_command(..., check=True) raises CalledProcessError on a non-zero exit
Raises(rc) == rc # 0

\* main(): if is_internet_connected(): return 0
Probe ==
  /\ mainpc = "probe" /\ ~exited
  /\ UNCHANGED auxVars
  /\ \E online \in BOOLEAN :
       /\ internet' = (IF online THEN "connected" ELSE "offline")
       /\ IF online
          THEN Return(0)
          ELSE mainpc' = "detect" /\ UNCHANGED <<exited, exitCode>>
  /\ UNCHANGED <<WIFI_INTERFACE, HOTSPOT_CONNECTION_NAME, listening,
                 fileVars, req, nreq, cmds, workers, handed>>

\* Mutant: main() goes on whatever detect_wifi_interface() returned.
NoInterface_Never(iface) == FALSE

\* main(): if not WIFI_INTERFACE
NoInterface(iface) == iface = ""

\* main(): WIFI_INTERFACE = detect_wifi_interface(); if not WIFI_INTERFACE: return 1
Detect ==
  /\ mainpc = "detect" /\ ~exited
  /\ UNCHANGED <<auxVars, internet>>
  /\ \E rc \in ExitStatus, lines \in DeviceListings :
       /\ Issue(Command("device_status", "", 0, rc, TRUE))
       /\ IF Raises(rc)
          THEN Crash /\ UNCHANGED WIFI_INTERFACE
          ELSE /\ WIFI_INTERFACE' = FirstWifiDevice(lines)
               /\ IF NoInterface(WIFI_INTERFACE')
                  THEN Return(1)
                  ELSE mainpc' = "hotspot" /\ UNCHANGED <<exited, exitCode>>
  /\ UNCHANGED <<HOTSPOT_CONNECTION_NAME, listening,
                 fileVars, req, nreq, workers, handed>>

\* Mutant: the access-point creation command runs with check=False.
HotspotStartFails_Unchecked(rc) == FALSE

\* start_hotspot(): the access-point creation command runs with check=True
HotspotStartFails(rc) == Raises(rc)

\* Mutant: the profile name is whatever the active listing gave, without
\* the fallback label.
ProfileName_NoFallback(found) == found

\* start_hotspot(): get_active_connection_for_device(WIFI_INTERFACE) or "Hotspot"
ProfileName(found) == IF found # "" THEN found ELSE "Hotspot"

\* main(): start_hotspot()
StartHotspot ==
  /\ mainpc = "hotspot" /\ ~exited
  /\ UNCHANGED <<auxVars, internet>>
  /\ \E rcManaged \in ExitStatus, rcHotspot \in ExitStatus,
        rcShow \in ExitStatus, lines \in ActiveListings :
       LET managed == Command("managed", WIFI_INTERFACE, 0, rcManaged, FALSE)
           hotspot == Command("hotspot", WIFI_INTERFACE, 0, rcHotspot, TRUE)
           show == Command("show_active", "", 0, rcShow, TRUE)
           found == ActiveConnectionFor(lines, WIFI_INTERFACE)
       IN IF HotspotStartFails(rcHotspot)
          THEN /\ cmds' = cmds \o <<managed, hotspot>>
               /\ Crash
               /\ UNCHANGED HOTSPOT_CONNECTION_NAME
          ELSE /\ cmds' = cmds \o <<managed, hotspot, show>>
               /\ IF Raises(rcShow)
                  THEN Crash /\ UNCHANGED HOTSPOT_CONNECTION_NAME
                  ELSE /\ HOTSPOT_CONNECTION_NAME' = ProfileName(found)
                       /\ mainpc' = "bind"
                       /\ UNCHANGED <<exited, exitCode>>
  /\ UNCHANGED <<WIFI_INTERFACE, listening, fileVars, req, nreq, workers, handed>>

\* main(): app.run(host, port): binds the listener and serves until exit
Bind ==
  /\ mainpc = "bind" /\ ~exited
  /\ UNCHANGED <<auxVars, internet>>
  /\ \E bound \in BOOLEAN :
       IF bound
       THEN /\ listening' = TRUE
            /\ mainpc' = "serving"
            /\ UNCHANGED <<exited, exitCode>>
       ELSE Crash /\ UNCHANGED listening
  /\ UNCHANGED <<WIFI_INTERFACE, HOTSPOT_CONNECTION_NAME,
                 fileVars, req, nreq, cmds, workers, handed>>

\* ------------------------------------------------------------------ portal
\* request.form.get(k) or ""
RECURSIVE FormGet(_, _)
FormGet(form, k) ==
  IF form = <<>> THEN <<>>
  ELSE IF Head(form)[1] = k THEN Head(form)[2]
  ELSE FormGet(Tail(form), k)

\* (request.form.get(k) or "").strip()
Field(form, k) == Strip(FormGet(form, k))

\* Mutant: "and" for "or" in the validation.
IsValidSubmission_Either(ssid, password) == ssid # <<>> \/ password # <<>>

\* portal(): the negation of "if not ssid or not password"
IsValidSubmission(ssid, password) == ssid # <<>> /\ password # <<>>

\* Mutant: the presence check looks for the SSID as typed, not escaped.
AlreadyPresent_Unescaped(existing, ssid) ==
  Contains(existing, SsidKey \o <<QUOTE>> \o ssid \o <<QUOTE>>)

\* write_wifi_credentials(): if f'ssid="{escape_wpa(ssid)}"' in existing
AlreadyPresent(existing, ssid) == Contains(existing, SsidEntry(ssid))

Running == listening /\ ~exited
AllIdle == \A u \in Threads : req[u].pc = "idle"

\* The server hands a request to the handler thread t.
Receive(t) ==
  /\ Running
  /\ UNCHANGED <<auxVars, internet>>
  /\ req[t].pc = "idle"
  /\ nreq < MaxRequests
  /\ nreq' = nreq + 1
  /\ \/ req' = [req EXCEPT ![t] =
                  [IdleRequest EXCEPT !.pc = "handle", !.no = nreq + 1,
                                      !.method = "GET"]]
     \/ \E form \in Forms :
          req' = [req EXCEPT ![t] =
                    [IdleRequest EXCEPT !.pc = "handle", !.no = nreq + 1,
                                        !.method = "POST", !.form = form]]
  /\ UNCHANGED <<procVars, fileVars, cmds, workers, handed>>

\* portal(): return render_form(message, is_error)
Rendered(r, outcome) ==
  [r EXCEPT !.pc = "respond", !.outcome = outcome, !.form = <<>>]

\* portal(): the except clause of the try block
Caught(r, outcome) == Rendered(r, outcome)

\* portal(): method dispatch, field extraction and validation
Validate(t) ==
  /\ Running
  /\ UNCHANGED <<auxVars, internet>>
  /\ req[t].pc = "handle"
  /\ LET r == req[t]
         ssid == Field(r.form, "ssid")
         password == Field(r.form, "password")
     IN req' = [req EXCEPT ![t] =
                  IF r.method # "POST"
                  THEN Rendered(r, "Form")
                  ELSE IF ~IsValidSubmission(ssid, password)
                  THEN Rendered(r, "ValidationError")
                  ELSE [r EXCEPT !.pc = "read", !.form = <<>>,
                                 !.ssid = ssid, !.password = password]]
  /\ UNCHANGED <<procVars, fileVars, nreq, cmds, workers, handed>>

\* Mutant: the file is never read, existing stays "".
ReadText_Never == <<>>

\* write_wifi_credentials(): existing = "" unless the file exists, then its
\* text (errors="ignore": undecodable bytes are dropped, the read succeeds)
ReadText == IF fileExists THEN file ELSE <<>>

\* write_wifi_credentials(): existing = ...
PersistRead(t) ==
  /\ Running
  /\ UNCHANGED <<auxVars, internet>>
  /\ req[t].pc = "read"
  /\ req' = [req EXCEPT ![t] = [@ EXCEPT !.pc = "append", !.existing = ReadText]]
  /\ UNCHANGED <<procVars, fileVars, nreq, cmds, workers, handed>>

\* Mutant: a submission whose SSID is already recorded is answered at once.
AfterPersist_DoneWhenPresent(r, wrote) ==
  IF wrote
  THEN [r EXCEPT !.pc = "delete", !.persisted = TRUE, !.appended = TRUE,
                 !.existing = <<>>]
  ELSE Rendered([r EXCEPT !.persisted = TRUE, !.existing = <<>>], "Success")

\* portal(): write_wifi_credentials returned (wrote: it appended the block);
\* connect_to_wifi is called next
AfterPersist(r, wrote) ==
  [r EXCEPT !.pc = "delete", !.persisted = TRUE, !.appended = wrote,
            !.existing = <<>>]

\* Mutant: write_wifi_credentials logs the write error and returns.
AfterPersistFailure_Swallowed(r) == [r EXCEPT !.pc = "delete"]

\* Mutant: the file is opened with mode "w" and loses what it held.
AppendText_Truncating(text, block) == block

\* write_wifi_credentials(): open(WPA_SUPPLICANT_FILE, "a"); write(network_block)
AppendText(text, block) == text \o block

\* portal(): mkdir/open/write raised inside write_wifi_credentials; the
\* exception leaves the try block before connect_to_wifi is reached
AfterPersistFailure(r) == Caught(r, "PersistenceError")

\* write_wifi_credentials(): the presence check and the append (a failing
\* mkdir, open or write leaves the file as it was)
PersistAppend(t) ==
  /\ Running
  /\ UNCHANGED <<auxVars, internet>>
  /\ req[t].pc = "append"
  /\ LET r == req[t] IN
     IF AlreadyPresent(r.existing, r.ssid)
     THEN /\ req' = [req EXCEPT ![t] = AfterPersist(r, FALSE)]
          /\ UNCHANGED fileVars
     ELSE \E writable \in BOOLEAN :
            IF writable
            THEN /\ file' = AppendText(file, NetworkBlock(r.ssid, r.password))
                 /\ fileExists' = TRUE
                 /\ req' = [req EXCEPT ![t] = AfterPersist(r, TRUE)]
            ELSE /\ UNCHANGED fileVars
                 /\ req' = [req EXCEPT ![t] =
                              AfterPersistFailure([r EXCEPT !.existing = <<>>])]
  /\ UNCHANGED <<procVars, nreq, cmds, workers, handed>>

\* Mutant: the profile deletion runs with check=True, its failure is raised.
AfterDelete_Checked(r, rc) ==
  IF Raises(rc)
  THEN [Caught(r, "ConnectionError") EXCEPT !.rcDelete = rc]
  ELSE [r EXCEPT !.pc = "join", !.rcDelete = rc]

\* connect_to_wifi(): what follows the profile deletion exiting with rc
AfterDelete(r, rc) == [r EXCEPT !.pc = "join", !.rcDelete = rc]

\* connect_to_wifi(): nmcli connection delete ssid, check=False
ConnectDelete(t) ==
  /\ Running
  /\ UNCHANGED <<auxVars, internet>>
  /\ req[t].pc = "delete"
  /\ \E rc \in ExitStatus :
       /\ Issue(Command("delete", req[t].ssid, req[t].no, rc, FALSE))
       /\ req' = [req EXCEPT ![t] = AfterDelete(@, rc)]
  /\ UNCHANGED <<procVars, fileVars, nreq, workers, handed>>

\* Mutant: the join command runs with check=False, its failure goes unseen.
AfterJoin_Unchecked(r, rc) == [r EXCEPT !.pc = "arm", !.joined = TRUE]

\* portal(): what follows connect_to_wifi's join command exiting with rc
AfterJoin(r, rc) ==
  IF Raises(rc)
  THEN Caught(r, "ConnectionError")
  ELSE [r EXCEPT !.pc = "arm", !.joined = TRUE]

\* connect_to_wifi(): nmcli device wifi connect ssid password ... ifname
ConnectJoin(t) ==
  /\ Running
  /\ UNCHANGED <<auxVars, internet>>
  /\ req[t].pc = "join"
  /\ \E rc \in ExitStatus :
       /\ Issue(Command("connect", <<req[t].ssid, req[t].password>>,
                         req[t].no, rc, TRUE))
       /\ req' = [req EXCEPT ![t] = AfterJoin(@, rc)]
  /\ UNCHANGED <<procVars, fileVars, nreq, workers, handed>>

\* schedule_shutdown(): threading.Thread(target=_shutdown, daemon=True).start()
ScheduleShutdown(t) ==
  /\ Running
  /\ UNCHANGED <<auxVars, internet>>
  /\ req[t].pc = "arm"
  /\ workers' = Append(workers, [pc |-> "sleep1", slept |-> 0, by |-> req[t].no])
  /\ req' = [req EXCEPT ![t] = Rendered(@, "Success")]
  /\ UNCHANGED <<procVars, fileVars, nreq, cmds, handed>>

\* portal() returns: the response is handed to the server for sending
Respond(t) ==
  /\ Running
  /\ UNCHANGED <<auxVars, internet>>
  /\ req[t].pc = "respond"
  /\ handed' = handed \cup {req[t].no}
  /\ req' = [req EXCEPT ![t] = IdleRequest]
  /\ UNCHANGED <<procVars, fileVars, nreq, cmds, workers>>

\* ---------------------------------------------------------- shutdown worker
Workers == 1..Len(workers)

Delay(w) == IF workers[w].pc = "sleep1" THEN FlushDelay
            ELSE IF workers[w].pc = "sleep2" THEN ExitDelay ELSE 0

\* One unit of time passes for every sleeping worker.
Tick ==
  /\ ~exited
  /\ UNCHANGED <<auxVars, internet>>
  /\ \E w \in Workers : workers[w].slept < Delay(w)
  /\ workers' = [w \in Workers |->
                   IF workers[w].slept < Delay(w)
                   THEN [workers[w] EXCEPT !.slept = @ + 1]
                   ELSE workers[w]]
  /\ UNCHANGED <<procVars, fileVars, req, nreq, cmds, handed>>

\* Mutant: the teardown command runs with check=True; its failure raises in
\* the worker thread, which ends without reaching os._exit.
AfterStop_Checked(wk, rc) ==
  IF Raises(rc)
  THEN [wk EXCEPT !.pc = "dead"]
  ELSE [wk EXCEPT !.pc = "sleep2", !.slept = 0]

\* Mutant: a failed teardown is tried again after another sleep, so that the
\* exit waits for it.
AfterStop_Retrying(wk, rc) ==
  IF Raises(rc)
  THEN [wk EXCEPT !.slept = 0]
  ELSE [wk EXCEPT !.pc = "sleep2", !.slept = 0]

\* _shutdown(): what follows stop_hotspot(), whose command runs with check=False
AfterStop(wk, rc) == [wk EXCEPT !.pc = "sleep2", !.slept = 0]

\* stop_hotspot(): if HOTSPOT_CONNECTION_NAME
StopIssues(name) == name # ""

\* _shutdown(): time.sleep(2); stop_hotspot()
WorkerStop(w) ==
  /\ ~exited
  /\ UNCHANGED <<auxVars, internet>>
  /\ w \in Workers
  /\ workers[w].pc = "sleep1"
  /\ workers[w].slept >= FlushDelay
  /\ \E rc \in ExitStatus :
       /\ workers' = [workers EXCEPT ![w] = AfterStop(@, rc)]
       /\ IF StopIssues(HOTSPOT_CONNECTION_NAME)
          THEN Issue(Command("down", HOTSPOT_CONNECTION_NAME, 0, rc, FALSE))
          ELSE UNCHANGED cmds
  /\ UNCHANGED <<procVars, fileVars, req, nreq, handed>>

\* _shutdown(): time.sleep(1); os._exit(0)
WorkerExit(w) ==
  /\ ~exited
  /\ UNCHANGED <<auxVars, internet>>
  /\ w \in Workers
  /\ workers[w].pc = "sleep2"
  /\ workers[w].slept >= ExitDelay
  /\ exited' = TRUE
  /\ exitCode' = 0
  /\ workers' = [workers EXCEPT ![w] = [@ EXCEPT !.pc = "exit"]]
  /\ UNCHANGED <<mainpc, WIFI_INTERFACE, HOTSPOT_CONNECTION_NAME, listening,
                 fileVars, req, nreq, cmds, handed>>

\* --------------------------------------------------------- specifications
Startup == Probe \/ Detect \/ StartHotspot \/ Bind

Handle(t) ==
  \/ Validate(t)
  \/ PersistRead(t)
  \/ PersistAppend(t)
  \/ ConnectDelete(t)
  \/ ConnectJoin(t)
  \/ ScheduleShutdown(t)
  \/ Respond(t)

Shutdown == Tick \/ \E w \in 1..MaxRequests : WorkerStop(w) \/ WorkerExit(w)

\* Requests handled one at a time, as the spec's single serving loop does.
Next ==
  \/ Startup
  \/ \E t \in Threads : (AllIdle /\ t = 1 /\ Receive(t)) \/ Handle(t)
  \/ Shutdown

Spec == Init /\ [][Next]_vars

\* The worker is a running thread and time passes: sleeps end, the teardown
\* command returns, os._exit is reached.
Fairness ==
  /\ WF_vars(Tick)
  /\ \A w \in 1..MaxRequests : WF_vars(WorkerStop(w)) /\ WF_vars(WorkerExit(w))

FairSpec == Spec /\ Fairness

\* Requests handled by overlapping threads (a threaded HTTP server).
NextThreaded ==
  \/ Startup
  \/ \E t \in Threads : Receive(t) \/ Handle(t)
  \/ Shutdown

ThreadedSpec == Init /\ [][NextThreaded]_vars

(***************************************************************************)
(* escape_wpa on its own: one application to a bounded input.              *)
(***************************************************************************)

\* Longest generated input to escape_wpa.
MaxEscapeLen == 4

EscapeAlphabet == {"a", QUOTE, BSL}

RECURSIVE StringsUpTo(_)
StringsUpTo(n) ==
  IF n = 0
  THEN {<<>>}
  ELSE LET shorter == StringsUpTo(n - 1)
       IN shorter \cup {<<c>> \o s : c \in EscapeAlphabet,
                                     s \in {x \in shorter : Len(x) = n - 1}}

ExamplePassword == <<"p", "a", QUOTE, "s", "s">>

EscapeInputs == StringsUpTo(MaxEscapeLen) \cup {ExamplePassword}

EscapeInit ==
  /\ ProgramInit
  /\ boot = BootIdle
  /\ esc \in {[pc |-> "input", value |-> v, out |-> <<>>] : v \in EscapeInputs}

\* return value.replace(...).replace(...)
Escape ==
  /\ esc.pc = "input"
  /\ esc' = [esc EXCEPT !.pc = "escaped", !.out = escape_wpa(esc.value)]
  /\ UNCHANGED <<procVars, fileVars, req, nreq, cmds, workers, handed,
                 internet, boot>>

EscapeNext == Escape

EscapeSpec == EscapeInit /\ [][EscapeNext]_vars

(***************************************************************************)
(* bootstrap.py: the launcher, a process of its own.                       *)
(***************************************************************************)

COMMA == ","

\* s.split(","): the pieces between the commas, empty pieces included
RECURSIVE SplitComma(_, _)
SplitComma(s, piece) ==
  IF s = <<>> THEN <<piece>>
  ELSE IF Head(s) = COMMA
       THEN <<piece>> \o SplitComma(Tail(s), <<>>)
       ELSE SplitComma(Tail(s), Append(piece, Head(s)))

\* the loop of _cloud_source_urls(): keep the first occurrence of each
\* non-empty url
RECURSIVE Dedupe(_, _)
Dedupe(urls, seen) ==
  IF urls = <<>> THEN <<>>
  ELSE IF Head(urls) # <<>> /\ Head(urls) \notin seen
       THEN <<Head(urls)>> \o Dedupe(Tail(urls), seen \cup {Head(urls)})
       ELSE Dedupe(Tail(urls), seen)

\* item.strip() for item in ADDITIONAL_CLOUD_URLS.split(",") if item.strip()
RECURSIVE StrippedItems(_)
StrippedItems(items) ==
  IF items = <<>> THEN <<>>
  ELSE IF Strip(Head(items)) # <<>>
       THEN <<Strip(Head(items))>> \o StrippedItems(Tail(items))
       ELSE StrippedItems(Tail(items))

\* _cloud_source_urls()
cloud_source_urls(primary, additional) ==
  Dedupe(<<Strip(primary)>> \o StrippedItems(SplitComma(additional, <<>>)), {})

\* Values of GITLAB_GPIO_RAW_URL; a url is written as one letter.
PrimaryUrls == {<<"u">>, <<SP, "u", SP>>, <<>>}

\* Values of CLOUD_GPIO_ADDITIONAL_URLS.
AdditionalUrls ==
  { <<>>,
    <<"v">>,
    <<"u", COMMA, "v">>,
    <<SP, "v", COMMA, COMMA, "v", SP, COMMA, "w">>,
    <<SP, COMMA, "w", COMMA, "u">> }

\* How one download_latest_gpio_script call ends: True; an exception of
\* requests.get / raise_for_status / the temporary file before the cloud
\* script is replaced; an exception of chmod after it was replaced.
DownloadOutcomes == {"ok", "failed", "replaced_then_failed"}

\* Return codes of the launched script.
ChildCodes == {0, 1, 3}

BootStart ==
  { [pc |-> "probe", primary |-> p, additional |-> a, localExists |-> l,
     online |-> FALSE, urls |-> <<>>, tried |-> <<>>, selected |-> "unset",
     launched |-> "none", exitCode |-> -1] :
    p \in PrimaryUrls, a \in AdditionalUrls, l \in BOOLEAN }

BootInit ==
  /\ ProgramInit
  /\ esc = EscIdle
  /\ boot \in BootStart

\* What the launcher leaves alone.
nonBootVars == <<procVars, fileVars, req, nreq, cmds, workers, handed,
                 internet, esc>>

\* select_main_script(): if is_internet_reachable()
BootProbe ==
  /\ boot.pc = "probe"
  /\ \E online \in BOOLEAN :
       boot' = [boot EXCEPT
                  !.online = online,
                  !.pc = IF online THEN "download" ELSE "local",
                  !.urls = IF online
                           THEN cloud_source_urls(boot.primary, boot.additional)
                           ELSE <<>>]
  /\ UNCHANGED nonBootVars

\* select_main_script(): one turn of "for cloud_url in _cloud_source_urls()"
BootDownload ==
  /\ boot.pc = "download"
  /\ IF boot.urls = <<>>
     THEN boot' = [boot EXCEPT !.pc = "local"]
     ELSE \E outcome \in DownloadOutcomes :
            boot' = [boot EXCEPT
                       !.tried = Append(@, <<Head(boot.urls), outcome>>),
                       !.urls = Tail(@),
                       !.selected = IF outcome = "ok" THEN "cloud" ELSE @,
                       !.pc = IF outcome = "ok" THEN "run" ELSE @]
  /\ UNCHANGED nonBootVars

\* Mutant: the local script is selected without looking whether it exists.
LocalAvailable_Always(exists) == TRUE

\* select_main_script(): if LOCAL_GPIO_SCRIPT.exists()
LocalAvailable(exists) == exists

\* select_main_script(): the local fallback; main(): if script_to_run is None
BootLocal ==
  /\ boot.pc = "local"
  /\ IF LocalAvailable(boot.localExists)
     THEN boot' = [boot EXCEPT !.selected = "local", !.pc = "run"]
     ELSE boot' = [boot EXCEPT !.selected = "none", !.pc = "done",
                               !.exitCode = 1]
  /\ UNCHANGED nonBootVars

\* main(): exit_code = run_script(script_to_run); return exit_code
BootRun ==
  /\ boot.pc = "run"
  /\ \/ \E rc \in ChildCodes :
          boot' = [boot EXCEPT !.launched = boot.selected, !.exitCode = rc,
                               !.pc = "done"]
     \/ boot' = [boot EXCEPT !.exitCode = 1, !.pc = "done"]
  /\ UNCHANGED nonBootVars

BootNext == BootProbe \/ BootDownload \/ BootLocal \/ BootRun

BootSpec == BootInit /\ [][BootNext]_vars

\* ================================================================== claims
\* A request thread takes a step.
Steps(t) == req'[t] # req[t]

\* The file, the command log and the set of shutdown workers stay as they are.
NothingMutated ==
  /\ file' = file
  /\ fileExists' = fileExists
  /\ cmds' = cmds
  /\ workers' = workers

\* Number of network records of the file whose ssid line is that of ssid.
RecordCount(text, ssid) ==
  Occurrences(text, <<NL>> \o Indent \o SsidEntry(ssid) \o <<NL>>)

\* Positions of the command log holding a command op issued by request n.
IssuedBy(op, n) == {i \in DOMAIN cmds : cmds[i].op = op /\ cmds[i].by = n}

\* The form's ssid or password is empty after trimming.
EmptyAfterTrim(form) ==
  \/ Strip(FormGet(form, "ssid")) = <<>>
  \/ Strip(FormGet(form, "password")) = <<>>

\* C1: a POST whose ssid or password is empty after trimming ends in
\* ValidationError, and no step of that request (validation, response) changes
\* the configuration file, issues a network-manager command or spawns the
\* shutdown worker.
C1_ValidationShortCircuits ==
  [][\A t \in Threads :
       /\ (/\ req[t].pc = "handle"
           /\ req[t].method = "POST"
           /\ EmptyAfterTrim(req[t].form)
           /\ Steps(t))
          => (/\ req'[t].pc = "respond"
              /\ req'[t].outcome = "ValidationError"
              /\ NothingMutated)
       /\ (req[t].outcome = "ValidationError" /\ Steps(t))
          => (req'[t] = IdleRequest /\ NothingMutated)]_vars

\* A ValidationError is about to be answered while the file holds a record.
C1_Witness ==
  \E t \in Threads :
    /\ req[t].pc = "respond"
    /\ req[t].outcome = "ValidationError"
    /\ RecordCount(file, <<"a">>) = 1

\* C2: a Persist call for an SSID whose escaped entry is already in the file
\* returns successfully and leaves the file as it is, whatever the password;
\* and after two or more successful Persist calls for one SSID (each is
\* followed by that request's profile delete) the file holds exactly one
\* record for it.
C2_PersistIdempotent ==
  /\ [][\A t \in Threads :
          (/\ req[t].pc = "append"
           /\ Contains(file, SsidEntry(req[t].ssid))
           /\ Steps(t))
          => (/\ file' = file
              /\ fileExists' = fileExists
              /\ req'[t].persisted
              /\ ~req'[t].appended
              /\ req'[t].pc = "delete")]_vars
  /\ [](\A s \in ValidSsids :
          Cardinality({i \in DOMAIN cmds :
                         cmds[i].op = "delete" /\ cmds[i].arg = s}) >= 2
          => RecordCount(file, s) = 1)

\* Two Persist calls for the SSID b" have succeeded, the second with nothing
\* to append, on a file that had no record for it.
C2_Witness ==
  /\ Cardinality({i \in DOMAIN cmds :
                    cmds[i].op = "delete" /\ cmds[i].arg = <<"b", QUOTE>>}) = 2
  /\ RecordCount(file, <<"b", QUOTE>>) = 1

C4_RetryAfterConnectFailure ==
  \A i \in DOMAIN cmds : \A t \in Threads :
    (/\ cmds[i].op = "connect"
     /\ cmds[i].result = "error"
     /\ req[t].no > cmds[i].by
     /\ req[t].pc \in {"delete", "join", "arm", "respond"}
     /\ <<req[t].ssid, req[t].password>> = cmds[i].arg)
    => /\ ~req[t].appended
       /\ RecordCount(file, req[t].ssid) = 1
       /\ req[t].outcome # "PersistenceError"
       /\ req[t].pc \in {"arm", "respond"}
          => \E d \in IssuedBy("delete", req[t].no) :
               \E c \in IssuedBy("connect", req[t].no) :
                 /\ d < c
                 /\ cmds[d].arg = req[t].ssid
                 /\ cmds[c].arg = <<req[t].ssid, req[t].password>>

\* The join for (b", p) failed in request 1; request 2 resubmitted it and
\* its own join failed as well.
C4_Witness ==
  \E t \in Threads :
    /\ req[t].pc = "respond"
    /\ req[t].no = 2
    /\ req[t].ssid = <<"b", QUOTE>>
    /\ req[t].outcome = "ConnectionError"
    /\ \E i \in IssuedBy("connect", 1) :
         cmds[i].result = "error" /\ cmds[i].arg = <<req[t].ssid, req[t].password>>
    /\ IssuedBy("connect", 2) # {}

\* C5: when the access-point creation command exits non-zero, startup
\* aborts: the process has ended with an error, the HTTP listener was never
\* bound and no request was received or answered.
C5_HotspotFailureAborts ==
  (\E i \in DOMAIN cmds : cmds[i].op = "hotspot" /\ cmds[i].result = "error")
  => /\ exited
     /\ mainpc = "crashed"
     /\ exitCode = 1
     /\ ~listening
     /\ HOTSPOT_CONNECTION_NAME = ""
     /\ nreq = 0
     /\ handed = {}
     /\ \A t \in Threads : req[t] = IdleRequest

\* The access-point creation command has failed.
C5_Witness ==
  /\ Len(cmds) = 3
  /\ cmds[3].op = "hotspot"
  /\ cmds[3].result = "error"

\* C6: a request issues a network-manager command (profile delete, join) only
\* after its Persist call has returned successfully, and a request ending in
\* PersistenceError has issued neither.
C6_PersistBeforeConnect ==
  /\ [][\A t \in Threads :
          (Steps(t) /\ cmds' # cmds) => req[t].persisted]_vars
  /\ [](\A t \in Threads :
          /\ req[t].outcome = "PersistenceError"
             => IssuedBy("delete", req[t].no) \cup IssuedBy("connect", req[t].no) = {}
          /\ IssuedBy("delete", req[t].no) \cup IssuedBy("connect", req[t].no) # {}
             => req[t].persisted)

\* A request ended in PersistenceError after an earlier one was connected.
C6_Witness ==
  \E t \in Threads :
    /\ req[t].pc = "respond"
    /\ req[t].outcome = "PersistenceError"
    /\ IssuedBy("connect", 1) # {}

ErrorOutcomes == {"ValidationError", "PersistenceError", "ConnectionError"}

\* C7: a shutdown worker is spawned only by a request whose Persist call
\* returned and whose join command succeeded; a request ending in
\* ValidationError, PersistenceError or ConnectionError spawns none, the block
\* it appended stays in the file, and answering it leaves the listener bound
\* and the process running, the thread free for the next request.
C7_ArmedOnlyOnFullSuccess ==
  /\ [][workers' # workers /\ Len(workers') > Len(workers)
        => \E t \in Threads :
             /\ req[t].persisted
             /\ \E i \in IssuedBy("connect", req[t].no) : cmds[i].result = "ok"
             /\ workers' = Append(workers,
                                  [pc |-> "sleep1", slept |-> 0, by |-> req[t].no])
             /\ req'[t].outcome = "Success"]_vars
  /\ [][\A t \in Threads :
          /\ (req'[t].outcome \in ErrorOutcomes /\ Steps(t))
             => (file' = file /\ workers' = workers)
          /\ (req[t].outcome \in ErrorOutcomes /\ Steps(t))
             => (/\ req'[t] = IdleRequest
                 /\ NothingMutated
                 /\ listening' /\ ~exited')]_vars
  /\ [](\A t \in Threads :
          req[t].outcome \in ErrorOutcomes
          => /\ \A w \in Workers : workers[w].by # req[t].no
             /\ req[t].appended
                => Contains(file, NetworkBlock(req[t].ssid, req[t].password)))

\* Request 1 appended its block and failed to join; the portal has accepted
\* request 2 and no worker was spawned.
C7_Witness ==
  \E t \in Threads :
    /\ req[t].pc = "handle"
    /\ req[t].no = 2
    /\ workers = <<>>
    /\ \E i \in IssuedBy("connect", 1) :
         /\ cmds[i].result = "error"
         /\ cmds[i].arg[1] = <<"b", QUOTE>>
         /\ RecordCount(file, <<"b", QUOTE>>) = 1

\* C8: once a shutdown worker is spawned the process eventually exits, with
\* status 0 from the worker's os._exit; workers are never removed or reset.
C8_ArmedLeadsToExit ==
  /\ (workers # <<>>) ~> exited
  /\ [][\A w \in Workers :
          /\ w \in DOMAIN workers'
          /\ workers'[w].by = workers[w].by
          /\ workers[w].pc = "sleep2" => workers'[w].pc \in {"sleep2", "exit"}
          /\ workers[w].pc = "exit" => workers'[w].pc = "exit"]_vars
  /\ [](\A w \in Workers : workers[w].pc = "exit" => exited /\ exitCode = 0)

\* The worker spawned by request 1 ended the process after the portal had
\* accepted request 2.
C8_Witness ==
  /\ exited
  /\ nreq = 2
  /\ \E w \in Workers : workers[w].pc = "exit" /\ workers[w].by = 1

\* C9: a worker tears the hotspot down only after the response of the request
\* that spawned it was handed to the server.
C9_ResponseBeforeTeardown ==
  \A w \in Workers :
    workers[w].pc \in {"sleep2", "exit"} => workers[w].by \in handed

\* C10: at most one shutdown worker is spawned in a process.
C10_AtMostOneWorker == Len(workers) <= 1

\* The text "key_mgmt=WPA-PSK".
KeyMgmtLine ==
  <<"k", "e", "y", "_", "m", "g", "m", "t", "=", "W", "P", "A", "-", "P", "S", "K">>

\* The record of the file format for an escaped ssid and an escaped psk.
RecordText(essid, epsk) ==
  <<NL, "n", "e", "t", "w", "o", "r", "k", "=", "{", NL>>
  \o <<SP, SP, SP, SP, "s", "s", "i", "d", "=", QUOTE>> \o essid \o <<QUOTE, NL>>
  \o <<SP, SP, SP, SP, "p", "s", "k", "=", QUOTE>> \o epsk \o <<QUOTE, NL>>
  \o <<SP, SP, SP, SP>> \o KeyMgmtLine \o <<NL, "}", NL>>

\* C11: every step leaves the file as it was or makes it its previous text
\* followed by exactly one record, that of the ssid and password of a request
\* in its Persist call; a file that exists keeps existing.
C11_AppendOnly ==
  [][/\ fileExists => fileExists'
     /\ \/ file' = file
        \/ \E t \in Threads :
             /\ req[t].pc = "append"
             /\ fileExists'
             /\ file' = file \o RecordText(escape_wpa(req[t].ssid),
                                           escape_wpa(req[t].password))]_vars

\* A block for b" was appended behind the content the file had at the start.
C11_Witness ==
  /\ Len(file) > Len(Header)
  /\ SubSeq(file, 1, Len(Header)) = Header
  /\ RecordCount(file, <<"a">>) = 1
  /\ \E t \in Threads : req[t].appended /\ req[t].ssid = <<"b", QUOTE>>

\* The expected escaping, one character at a time: a backslash becomes two
\* backslashes, a double quote becomes backslash-quote, anything else stays.
RECURSIVE EscapeCharwise(_)
EscapeCharwise(s) ==
  IF s = <<>>
  THEN <<>>
  ELSE (CASE Head(s) = BSL -> <<BSL, BSL>>
          [] Head(s) = QUOTE -> <<BSL, QUOTE>>
          [] OTHER -> <<Head(s)>>) \o EscapeCharwise(Tail(s))

\* number of consecutive backslashes ending just before position i of s
RECURSIVE BackslashesBefore(_, _)
BackslashesBefore(s, i) ==
  IF i > 1 /\ s[i - 1] = BSL THEN 1 + BackslashesBefore(s, i - 1) ELSE 0

\* Reading of a quoted configuration value: a backslash makes the next
\* character literal.
RECURSIVE Unescape(_)
Unescape(s) ==
  IF s = <<>>
  THEN <<>>
  ELSE IF Head(s) = BSL /\ Len(s) >= 2
       THEN <<s[2]>> \o Unescape(SubSeq(s, 3, Len(s)))
       ELSE <<Head(s)>> \o Unescape(Tail(s))

\* C12: the escaped value is the input with every backslash doubled and every
\* double quote preceded by one backslash, taken character by character; so
\* every quote of the result follows an odd number of backslashes, reading
\* the result back gives the input, the value written between the quotes of a
\* psk or ssid line is this result, and pa"ss becomes pa\"ss.
C12_EscapeInjective ==
  esc.pc = "escaped" =>
    /\ esc.out = EscapeCharwise(esc.value)
    /\ \A i \in 1..Len(esc.out) :
         esc.out[i] = QUOTE => BackslashesBefore(esc.out, i) % 2 = 1
    /\ BackslashesBefore(esc.out, Len(esc.out) + 1) % 2 = 0
    /\ Unescape(esc.out) = esc.value
    /\ PskEntry(esc.value) = PskKey \o <<QUOTE>> \o esc.out \o <<QUOTE>>
    /\ SsidEntry(esc.value) = SsidKey \o <<QUOTE>> \o esc.out \o <<QUOTE>>
    /\ esc.value = ExamplePassword =>
         esc.out = <<"p", "a", BSL, QUOTE, "s", "s">>

C12_Witness ==
  /\ esc.pc = "escaped"
  /\ esc.value = ExamplePassword
  /\ esc.out = <<"p", "a", BSL, QUOTE, "s", "s">>

\* Commands of the log whose operation is op.
Issued(op) == {i \in DOMAIN cmds : cmds[i].op = op}

\* C13: when the probe answered offline and interface discovery completed
\* with no wireless interface, the process has ended by main() returning 1,
\* with no hotspot command (nor any other command after the device listing)
\* issued, the listener not bound and no request ever accepted.
C13_NoInterfaceAborts ==
  (/\ internet = "offline"
   /\ mainpc # "detect"
   /\ \E i \in Issued("device_status") : cmds[i].result = "ok"
   /\ WIFI_INTERFACE = "")
  => /\ mainpc = "returned"
     /\ exited
     /\ exitCode = 1
     /\ Issued("hotspot") = {}
     /\ Issued("managed") = {}
     /\ Len(cmds) = 1
     /\ ~listening
     /\ nreq = 0
     /\ workers = <<>>

\* Offline, the device listing succeeded and named no wifi device: main()
\* has returned 1.
C13_Witness ==
  /\ internet = "offline"
  /\ mainpc = "returned"
  /\ exitCode = 1
  /\ WIFI_INTERFACE = ""
  /\ \E i \in Issued("device_status") : cmds[i].result = "ok"

\* The launcher has chosen what to run (or that nothing can be run).
Selected == boot.pc \in {"run", "done"}

\* Every configured url was tried, in order, and none downloaded.
AllDownloadsFailed ==
  /\ Len(boot.tried) = Len(cloud_source_urls(boot.primary, boot.additional))
  /\ \A i \in DOMAIN boot.tried : boot.tried[i][2] # "ok"

\* C14: the launcher selects the cloud script only when the connectivity
\* check succeeded and a download succeeded, the urls having been tried in
\* their configured order (blank and repeated ones left out) up to the first
\* success; otherwise it selects the local script exactly when that file
\* exists; with neither it launches nothing and returns 1.  What it launches
\* is what it selected.
C14_LauncherFallback ==
  /\ \A i \in DOMAIN boot.tried :
       /\ i <= Len(cloud_source_urls(boot.primary, boot.additional))
       /\ boot.tried[i][1] = cloud_source_urls(boot.primary, boot.additional)[i]
       /\ boot.tried[i][1] # <<>>
       /\ \A j \in DOMAIN boot.tried : j < i => /\ boot.tried[j][2] # "ok"
                                                /\ boot.tried[j][1] # boot.tried[i][1]
  /\ boot.tried # <<>> => boot.online
  /\ Selected =>
       /\ boot.selected = "cloud"
            <=> (/\ boot.online
                 /\ boot.tried # <<>>
                 /\ boot.tried[Len(boot.tried)][2] = "ok")
       /\ boot.selected # "cloud" => (~boot.online \/ AllDownloadsFailed)
       /\ boot.selected = "local" <=> (boot.selected # "cloud" /\ boot.localExists)
       /\ boot.selected = "none" <=> (boot.selected # "cloud" /\ ~boot.localExists)
       /\ boot.selected = "none"
            => (boot.pc = "done" /\ boot.launched = "none" /\ boot.exitCode = 1)
  /\ boot.launched \in {"none", boot.selected}
  /\ boot.launched # "none" => boot.exitCode \in ChildCodes

\* Online, the first url failed and the second downloaded: the cloud script
\* was launched.
C14_Witness ==
  /\ boot.pc = "done"
  /\ boot.launched = "cloud"
  /\ Len(boot.tried) = 2
  /\ boot.tried[1][2] # "ok"
  /\ ~boot.localExists

\* Workers that are past their stop_hotspot() call.
PastStop == {w \in Workers : workers[w].pc \in {"sleep2", "exit"}}

\* C15: a shutdown worker ends the process only from the sleep that follows
\* its stop_hotspot() call; that call issued the teardown command for the
\* remembered profile, one command per worker that got that far, and whatever
\* the command's exit status the worker went on to its second sleep with the
\* process still running.
C15_TeardownBeforeExit ==
  /\ [](Cardinality(Issued("down")) = Cardinality(PastStop))
  /\ [](\A w \in Workers : workers[w].pc = "exit" => Issued("down") # {})
  /\ [][\A w \in Workers :
          /\ (workers'[w].pc = "exit" /\ workers[w].pc # "exit")
             => workers[w].pc = "sleep2" /\ workers[w].slept >= ExitDelay
          /\ (workers[w].pc = "sleep1" /\ workers'[w].pc # "sleep1")
             => /\ workers'[w].pc = "sleep2"
                /\ ~exited'
                /\ Len(cmds') = Len(cmds) + 1
                /\ cmds'[Len(cmds')].op = "down"
                /\ cmds'[Len(cmds')].arg = HOTSPOT_CONNECTION_NAME
                /\ cmds'[Len(cmds')].result \in {"ok", "ignored"}]_vars

\* A worker ended the process after its teardown command, the exit status of
\* which (zero or not) was discarded.
C15_Witness ==
  /\ exited
  /\ exitCode = 0
  /\ \E w \in Workers : workers[w].pc = "exit"
  /\ \E i \in Issued("down") : cmds[i].result = "ignored"

\* The Connect call of the request on thread t has ended (returned or raised).
ConnectEnded(t) ==
  /\ req[t].pc \notin {"delete", "join"}
  /\ IssuedBy("delete", req[t].no) # {}

\* C16: Connect issues the deletion of the profile named by the ssid, then
\* the join for that ssid and password: one of each per call, in that order.
\* The deletion's exit status is discarded and the join follows it either way;
\* the join's non-zero exit ends the request in ConnectionError, its zero exit
\* in the request going on to arm the worker, with no second join.
C16_DeleteThenJoin ==
  /\ [](\A n \in 1..nreq :
          /\ Cardinality(IssuedBy("delete", n)) <= 1
          /\ Cardinality(IssuedBy("connect", n)) <= 1
          /\ \A d \in IssuedBy("delete", n) : cmds[d].result = "ignored"
          /\ \A c \in IssuedBy("connect", n) :
               \E d \in IssuedBy("delete", n) :
                 d < c /\ cmds[d].arg = cmds[c].arg[1])
  /\ [](\A t \in Threads :
          /\ req[t].pc = "join"
             => /\ Cardinality(IssuedBy("delete", req[t].no)) = 1
                /\ IssuedBy("connect", req[t].no) = {}
          /\ ConnectEnded(t)
             => /\ Cardinality(IssuedBy("connect", req[t].no)) = 1
                /\ \A c \in IssuedBy("connect", req[t].no) :
                     /\ cmds[c].arg = <<req[t].ssid, req[t].password>>
                     /\ cmds[c].result = "error"
                          <=> req[t].outcome = "ConnectionError"
                     /\ cmds[c].result = "ok" <=> req[t].joined)
  /\ [][\A t \in Threads :
          /\ (req[t].pc = "delete" /\ Steps(t))
             => /\ req'[t].pc = "join"
                /\ req'[t].rcDelete \in ExitStatus
                /\ cmds' = Append(cmds, [op |-> "delete", arg |-> req[t].ssid,
                                         by |-> req[t].no, result |-> "ignored"])
          /\ (req[t].pc = "join" /\ Steps(t))
             => /\ req'[t].pc \in {"arm", "respond"}
                /\ Len(cmds') = Len(cmds) + 1
                /\ cmds'[Len(cmds')].op = "connect"]_vars

\* The deletion failed, the join was issued all the same and failed too: the
\* request is about to answer ConnectionError.
C16_Witness ==
  \E t \in Threads :
    /\ req[t].pc = "respond"
    /\ req[t].rcDelete = 1
    /\ req[t].outcome = "ConnectionError"
    /\ \E c \in IssuedBy("connect", req[t].no) : cmds[c].result = "error"

\* C17: interface discovery returns: once the device listing was run, main()
\* has an interface name that is the first wifi device of some listing, or
\* the empty string; when the listing command failed it has the empty string
\* and takes the "no interface" return, it is not ended by an exception.
C17_DiscoveryReturnsEmptyOnFailure ==
  (mainpc # "detect" /\ Issued("device_status") # {})
  => /\ WIFI_INTERFACE \in {FirstWifiDevice(lines) : lines \in DeviceListings}
     /\ \A i \in Issued("device_status") :
          cmds[i].result = "error"
          => /\ WIFI_INTERFACE = ""
             /\ mainpc = "returned"
             /\ exitCode = 1

\* Profile names start_hotspot() can remember for the interface in use.
ProfileNames ==
  ({ActiveConnectionFor(lines, WIFI_INTERFACE) : lines \in ActiveListings}
     \ {""}) \cup {"Hotspot"}

\* C18: while the portal is serving, the probe had answered offline, the
\* interface name is not empty, the hotspot command for that interface had
\* succeeded, and the remembered profile name is the active connection found
\* for the interface or the label "Hotspot", never empty; the profile name is
\* set only after a successful hotspot command.  From the moment the listener
\* is bound no step changes the interface name or the profile name, and the
\* teardown command of a worker names the profile remembered at startup.
C18_ServingInvariant ==
  /\ [](listening
        => /\ internet = "offline"
           /\ WIFI_INTERFACE # ""
           /\ HOTSPOT_CONNECTION_NAME # ""
           /\ HOTSPOT_CONNECTION_NAME \in ProfileNames
           /\ \A i \in Issued("down") : cmds[i].arg = HOTSPOT_CONNECTION_NAME)
  /\ [](HOTSPOT_CONNECTION_NAME # ""
        => \E i \in Issued("hotspot") :
             cmds[i].result = "ok" /\ cmds[i].arg = WIFI_INTERFACE)
  /\ [][listening
        => /\ WIFI_INTERFACE' = WIFI_INTERFACE
           /\ HOTSPOT_CONNECTION_NAME' = HOTSPOT_CONNECTION_NAME
           /\ internet' = internet
           /\ listening']_vars

\* No active connection was listed for the interface: the portal serves with
\* the fallback label, and a worker has torn the hotspot down under it.
C18_Witness ==
  /\ listening
  /\ HOTSPOT_CONNECTION_NAME = "Hotspot"
  /\ \E i \in Issued("down") : cmds[i].arg = "Hotspot"

\* C19: two requests handled by overlapping threads that have both appended a
\* block for one SSID do not leave more than one record for it: the presence
\* check and the append of one Persist call are not interleaved with those of
\* another.
C19_PersistAtomic ==
  \A t1 \in Threads, t2 \in Threads :
    (/\ t1 # t2
     /\ req[t1].appended
     /\ req[t2].appended
     /\ req[t1].ssid = req[t2].ssid)
    => RecordCount(file, req[t1].ssid) <= 1

\* The record of the file for ssid with this password: its ssid line followed
\* by its psk line.
RecordLines(ssid, password) ==
  <<NL>> \o Indent \o SsidEntry(ssid) \o <<NL>> \o Indent \o PskEntry(password)
    \o <<NL>>

\* C20: for every shutdown worker, the file holds a record whose ssid and psk
\* are the escaped ssid and password of the join command that succeeded for
\* the request that spawned it.
C20_FileMatchesJoinedPassword ==
  \A w \in Workers :
    \A c \in IssuedBy("connect", workers[w].by) :
      cmds[c].result = "ok"
      => Contains(file, RecordLines(cmds[c].arg[1], cmds[c].arg[2]))

====
